---- MODULE Spec2Model ----
(***************************************************************************)
(* A model of the online bookstore: the process-wide Cart (models.py), the *)
(* user and order stores and the Flask request handlers of app.py.         *)
(*                                                                         *)
(* Conventions.                                                            *)
(*  - A Python value that may be None (a form field that may be absent, a  *)
(*    dict lookup with .get) is a set with at most one element: None is    *)
(*    {} and a present value x is {x}.                                     *)
(*  - Money is counted in mills (1/1000 dollar), so that the prices of     *)
(*    BOOKS and 10% / 20% of any sum of them are integers; the rounding    *)
(*    error of Python's binary floats is not modelled.                     *)
(*  - A card number is the sequence of its characters (digits).            *)
(*  - CartItem and Order are objects with identity: CartItems live in      *)
(*    `heap` under an id, Orders in `order_objs` under their index, and    *)
(*    lists and dicts hold these references, as in Python.                 *)
(***************************************************************************)
EXTENDS Integers, Sequences, FiniteSets, TLC

VARIABLES
    heap,            \* the CartItem objects alive: id -> [book, quantity]
    cart,            \* Cart.items of the global cart: the CartItem ids, in insertion order
    users,           \* app.users: email -> User
    orders,          \* app.orders: order_id -> Order (index into order_objs)
    order_objs,      \* every Order object constructed so far
    session,         \* the client's Flask session
    request,         \* the last request: its route and request.form
    resp,            \* the response to the last request: status, target, flashed messages
    payment_result,  \* what PaymentGateway.process_payment did in the last request
    inflight,        \* the process_checkout call running step by step on a server
                     \* thread: its position and its local variables
    overlapped       \* history: another request ran while that call was in progress

vars == <<heap, cart, users, orders, order_objs, session, request, resp, payment_result,
          inflight, overlapped>>

----------------------------------------------------------------------------
(* Bounds of the model *)

\* Largest absolute value of a quantity a request may leave in the cart.
MaxQty == 3
\* The same, in the specifications that place orders.
MaxOrderQty == 1
\* Number of orders placed in one run of the checkout specification.
MaxFirstOrders == 1
\* Number of Order objects constructed in one run.
MaxOrders == 2
\* The clock readings datetime.now() may return are 1..MaxTime.
MaxTime == 2

----------------------------------------------------------------------------
(* Python values *)

None == {}
Some(x) == {x}
The(o) == CHOOSE x \in o : TRUE

\* Python truthiness of an optional string: None and '' are falsy.
Truthy(o) == o # None /\ o # Some("")

\* Python truthiness of an optional sequence of characters.
TruthyChars(o) == o # None /\ o # Some(<<>>)

\* dict.get(key, default) on a dict given as a function.
DictGet(d, k) == IF k \in DOMAIN d THEN Some(d[k]) ELSE None

SeqToSet(s) == {s[i] : i \in 1..Len(s)}

\* The sequence s without its i-th element.
RemoveAt(s, i) == [j \in 1..(Len(s) - 1) |-> IF j < i THEN s[j] ELSE s[j + 1]]

----------------------------------------------------------------------------
(* Catalog *)

\* app.BOOKS: title and price (in mills).
BOOKS == <<
    [title |-> "The Great Gatsby", price |-> 10990],
    [title |-> "1984",             price |-> 8990],
    [title |-> "I Ching",          price |-> 18990],
    [title |-> "Moby Dick",        price |-> 12490] >>

\* add_to_cart's loop over BOOKS: the first book with that title, or None.
FindBook(title) ==
    LET hits == {i \in 1..Len(BOOKS) : Some(BOOKS[i].title) = title}
    IN  IF hits = {} THEN None
        ELSE Some(BOOKS[CHOOSE i \in hits : \A j \in hits : i <= j])

PriceOf(title) == (The(FindBook(Some(title)))).price

----------------------------------------------------------------------------
(* models.CartItem and models.Cart *)

\* CartItem(book, quantity)
CartItem(book, quantity) == [book |-> book, quantity |-> quantity]

\* CartItem.get_total_price: book.price * quantity
CartItem_get_total_price(item) == PriceOf(item.book) * item.quantity

\* The position in the cart of the entry keyed by title, 0 if there is none.
CartIndex(h, c, title) ==
    IF \E i \in 1..Len(c) : Some(h[c[i]].book) = title
    THEN CHOOSE i \in 1..Len(c) : Some(h[c[i]].book) = title
    ELSE 0

\* book_title in self.items
InCart(h, c, title) == CartIndex(h, c, title) # 0

\* The id a newly constructed CartItem gets: one no living object has.
NewItemId(h) == CHOOSE i \in 1..(Cardinality(DOMAIN h) + 1) : i \notin DOMAIN h

\* The CartItems some Order's items list refers to.
OrderItemIds(objs) == UNION {SeqToSet(objs[k].items) : k \in 1..Len(objs)}

\* Reference counting: a CartItem neither the cart nor an order refers to is gone.
Collect(h, c, objs) ==
    [i \in (DOMAIN h) \cap (SeqToSet(c) \cup OrderItemIds(objs)) |-> h[i]]

\* Cart.add_book with `=` where the code has `+=`.
Cart_add_book_assign(h, c, title, quantity) ==
    LET i == CartIndex(h, c, Some(title))
    IN  IF i # 0
        THEN <<[h EXCEPT ![c[i]].quantity = quantity], c>>
        ELSE LET id == NewItemId(h)
             IN  <<[j \in DOMAIN h \cup {id} |->
                        IF j = id THEN CartItem(title, quantity) ELSE h[j]],
                   Append(c, id)>>

\* Cart.add_book: the pair <<heap, items>> after it.
Cart_add_book(h, c, title, quantity) ==
    LET i == CartIndex(h, c, Some(title))
    IN  IF i # 0
        THEN <<[h EXCEPT ![c[i]].quantity = @ + quantity], c>>
        ELSE LET id == NewItemId(h)
             IN  <<[j \in DOMAIN h \cup {id} |->
                        IF j = id THEN CartItem(title, quantity) ELSE h[j]],
                   Append(c, id)>>

\* Cart.remove_book: the items after it.
Cart_remove_book(h, c, title) ==
    LET i == CartIndex(h, c, title)
    IN  IF i # 0 THEN RemoveAt(c, i) ELSE c

\* Cart.update_quantity that ignores a quantity that is not positive.
Cart_update_quantity_positive(h, c, title, quantity) ==
    LET i == CartIndex(h, c, title)
    IN  IF i # 0 /\ quantity > 0 THEN [h EXCEPT ![c[i]].quantity = quantity] ELSE h

\* Cart.update_quantity: the heap after it.
Cart_update_quantity(h, c, title, quantity) ==
    LET i == CartIndex(h, c, title)
    IN  IF i # 0 THEN [h EXCEPT ![c[i]].quantity = quantity] ELSE h

\* range(n) has n elements for n > 0 and none otherwise.
RangeLen(n) == IF n > 0 THEN n ELSE 0

\* Cart.get_total_price: for each item, book.price added range(quantity) times.
RECURSIVE Cart_get_total_price(_, _)
Cart_get_total_price(h, c) ==
    IF c = <<>> THEN 0
    ELSE PriceOf(h[Head(c)].book) * RangeLen(h[Head(c)].quantity)
         + Cart_get_total_price(h, Tail(c))

\* Cart.get_total_items
RECURSIVE Cart_get_total_items(_, _)
Cart_get_total_items(h, c) ==
    IF c = <<>> THEN 0
    ELSE h[Head(c)].quantity + Cart_get_total_items(h, Tail(c))

\* Cart.clear: self.items = {}
Cart_clear == <<>>

\* Cart.get_items: list(self.items.values())
Cart_get_items(c) == c

\* Cart.is_empty with `<` where the code has `==`.
Cart_is_empty_no_entry_check(c) == Len(c) < 0

\* Cart.is_empty
Cart_is_empty(c) == Len(c) = 0

----------------------------------------------------------------------------
(* Requests and responses *)

\* A quantity form field: absent, a decimal integer literal, or other text.
FormInt(n) == [kind |-> "int", val |-> n]
FormAbsent == [kind |-> "absent", val |-> 0]
FormText == [kind |-> "text", val |-> 0]

\* int(request.form.get('quantity', 1)): the integer, or ValueError.
ParseQuantity(field) ==
    CASE field.kind = "absent" -> [ok |-> TRUE, val |-> 1]
      [] field.kind = "int"    -> [ok |-> TRUE, val |-> field.val]
      [] OTHER                 -> [ok |-> FALSE, val |-> 0]

\* A request to a route with request.form = form (field name -> value).
Request(route, form) == [route |-> route, form |-> form]
NoForm == <<>>

\* flash(message): the message text with the values formatted into it (no title
\* is None, no quantity is 0).
Flash(msg, title, quantity) == [msg |-> msg, title |-> title, quantity |-> quantity]
Msg(msg) == Flash(msg, None, 0)

\* redirect(url_for(endpoint)) after the messages flashed by the handler.
Redirect(endpoint, flashes) ==
    [status |-> 302, target |-> endpoint, flashes |-> flashes]

\* render_template(template)
Render(template, flashes) ==
    [status |-> 200, target |-> template, flashes |-> flashes]

\* An exception no handler catches: Flask answers 500 Internal Server Error.
ServerError(exception, flashes) ==
    [status |-> 500, target |-> exception, flashes |-> flashes]

\* The handler did not reach PaymentGateway.process_payment.
NotCalled == [called |-> FALSE, raised |-> None, result |-> None]

\* The titles a request's title field is drawn from: absent, two catalog titles
\* and one that is not in the catalog.
FormTitles == {None, Some("The Great Gatsby"), Some("1984"), Some("Nonexistent Book")}

\* The values a request's quantity field is drawn from.
FormQuantities == {FormAbsent, FormText} \cup {FormInt(n) : n \in (-MaxQty)..MaxQty}

----------------------------------------------------------------------------
(* Initial state: app.py's module level *)

demo_user ==
    [password |-> "demo123", name |-> "Demo User",
     address |-> "123 Demo Street, Demo City, DC 12345", orders |-> <<>>]

\* No process_checkout call is running on a thread of its own.
Idle == [pc |-> "idle", form |-> NoForm, total_amount |-> 0, transaction_id |-> None, ref |-> 0]

\* The request is served from its first line to its last with no other request
\* in between.
OneAtATime == UNCHANGED <<inflight, overlapped>>

Init ==
    /\ heap = <<>>
    /\ cart = <<>>
    /\ users = [e \in {"demo@bookstore.com"} |-> demo_user]
    /\ orders = <<>>
    /\ order_objs = <<>>
    /\ session = [user_email |-> None, last_order_id |-> None]
    /\ request = Request("", NoForm)
    /\ resp = [status |-> 0, target |-> "", flashes |-> <<>>]
    /\ payment_result = NotCalled
    /\ inflight = Idle
    /\ overlapped = FALSE

----------------------------------------------------------------------------
(* The cart routes *)

\* Every quantity in the cart is within the bound max.
WithinQty(h, c, max) ==
    \A i \in 1..Len(c) : h[c[i]].quantity \in (-max)..max

\* POST /add-to-cart
AddToCart(title, qfield) ==
    LET q == ParseQuantity(qfield)
        book == FindBook(title)
        added == Cart_add_book(heap, cart, The(book).title, q.val)
    IN  /\ request' = Request("/add-to-cart", [title |-> title, quantity |-> qfield])
        /\ payment_result' = NotCalled
        /\ UNCHANGED <<users, orders, order_objs, session>>
        /\ IF ~q.ok
           THEN /\ resp' = ServerError("ValueError", <<>>)
                /\ UNCHANGED <<heap, cart>>
           ELSE IF book # None
           THEN /\ heap' = added[1]
                /\ cart' = added[2]
                /\ resp' = Redirect("index",
                       <<Flash("Added {quantity} \"{book.title}\" to cart!", title, q.val)>>)
           ELSE /\ resp' = Redirect("index", <<Msg("Book not found!")>>)
                /\ UNCHANGED <<heap, cart>>

\* POST /remove-from-cart
RemoveFromCart(title) ==
    /\ request' = Request("/remove-from-cart", [title |-> title])
    /\ cart' = Cart_remove_book(heap, cart, title)
    /\ heap' = Collect(heap, cart', order_objs)
    /\ resp' = Redirect("view_cart", <<Flash("Removed \"{book_title}\" from cart!", title, 0)>>)
    /\ payment_result' = NotCalled
    /\ UNCHANGED <<users, orders, order_objs, session>>

\* POST /update-cart
UpdateCart(title, qfield) ==
    LET q == ParseQuantity(qfield)
    IN  /\ request' = Request("/update-cart", [title |-> title, quantity |-> qfield])
        /\ payment_result' = NotCalled
        /\ UNCHANGED <<cart, users, orders, order_objs, session>>
        /\ IF ~q.ok
           THEN /\ resp' = ServerError("ValueError", <<>>)
                /\ UNCHANGED heap
           ELSE /\ heap' = Cart_update_quantity(heap, cart, title, q.val)
                /\ resp' = Redirect("view_cart",
                       IF q.val <= 0
                       THEN <<Flash("Removed \"{book_title}\" from cart!", title, 0)>>
                       ELSE <<Flash("Updated \"{book_title}\" quantity to {quantity}!",
                                    title, q.val)>>)

\* POST /clear-cart
ClearCart ==
    /\ request' = Request("/clear-cart", NoForm)
    /\ cart' = Cart_clear
    /\ heap' = Collect(heap, cart', order_objs)
    /\ resp' = Redirect("view_cart", <<Msg("Cart cleared!")>>)
    /\ payment_result' = NotCalled
    /\ UNCHANGED <<users, orders, order_objs, session>>

\* GET /checkout
Checkout ==
    /\ request' = Request("/checkout", NoForm)
    /\ resp' = IF Cart_is_empty(cart)
               THEN Redirect("index", <<Msg("Your cart is empty!")>>)
               ELSE Render("checkout.html", <<>>)
    /\ payment_result' = NotCalled
    /\ UNCHANGED <<heap, cart, users, orders, order_objs, session>>

----------------------------------------------------------------------------
(* Account routes *)

\* User(email, password, name, address): no orders yet.
User(email, password, name, address) ==
    [email |-> email, password |-> password, name |-> name, address |-> address,
     orders |-> <<>>]

\* get_current_user: the User of the session's user_email, or None.
get_current_user ==
    IF session.user_email # None THEN DictGet(users, The(session.user_email)) ELSE None

\* Lower case of the e-mail addresses of the model.
Lower(email) == IF email = "A@b.com" THEN "a@b.com" ELSE email

\* `email in users` that compares without regard to case.
EmailTakenIgnoringCase(us, email) == \E e \in DOMAIN us : Lower(e) = Lower(email)

\* register's test `email in users`
EmailTaken(us, email) == email \in DOMAIN us

\* POST /register
Register(email, password, name, address) ==
    /\ request' = Request("/register", [email |-> email, password |-> password,
                                        name |-> name, address |-> address])
    /\ payment_result' = NotCalled
    /\ UNCHANGED <<heap, cart, orders, order_objs>>
    /\ IF ~Truthy(email) \/ ~Truthy(password) \/ ~Truthy(name)
       THEN /\ resp' = Render("register.html", <<Msg("Please fill in all required fields")>>)
            /\ UNCHANGED <<users, session>>
       ELSE IF EmailTaken(users, The(email))
       THEN /\ resp' = Render("register.html",
                              <<Msg("An account with this email already exists")>>)
            /\ UNCHANGED <<users, session>>
       ELSE /\ users' = [e \in DOMAIN users \cup {The(email)} |->
                           IF e = The(email)
                           THEN User(The(email), The(password), The(name),
                                     IF address = None THEN "" ELSE The(address))
                           ELSE users[e]]
            /\ session' = [session EXCEPT !.user_email = email]
            /\ resp' = Redirect("index",
                          <<Msg("Account created successfully! You are now logged in.")>>)

\* POST /login
Login(email, password) ==
    LET user == IF email = None THEN None ELSE DictGet(users, The(email))
    IN  /\ request' = Request("/login", [email |-> email, password |-> password])
        /\ payment_result' = NotCalled
        /\ UNCHANGED <<heap, cart, users, orders, order_objs>>
        /\ IF user # None /\ Some(The(user).password) = password
           THEN /\ session' = [session EXCEPT !.user_email = email]
                /\ resp' = Redirect("index", <<Msg("Logged in successfully!")>>)
           ELSE /\ resp' = Render("login.html", <<Msg("Invalid email or password")>>)
                /\ UNCHANGED session

\* GET /logout
Logout ==
    /\ request' = Request("/logout", NoForm)
    /\ session' = [session EXCEPT !.user_email = None]
    /\ resp' = Redirect("index", <<Msg("Logged out successfully!")>>)
    /\ payment_result' = NotCalled
    /\ UNCHANGED <<heap, cart, users, orders, order_objs>>

\* The values the account forms' fields are drawn from.
FormEmails == {None, Some(""), Some("a@b.com"), Some("A@b.com"), Some("demo@bookstore.com")}
FormPasswords == {None, Some("demo123"), Some("pass")}
FormNames == {None, Some("Demo2")}
FormAddresses == {None, Some("1 Main St")}

\* The account routes alone.
NextAccounts ==
    \/ \E e \in FormEmails, p \in FormPasswords, n \in FormNames, a \in FormAddresses :
          Register(e, p, n, a) /\ OneAtATime
    \/ \E e \in FormEmails, p \in FormPasswords : Login(e, p) /\ OneAtATime
    \/ Logout /\ OneAtATime

SpecAccounts == Init /\ [][NextAccounts]_vars

----------------------------------------------------------------------------
(* models.PaymentGateway, models.Order, models.User.add_order *)

\* str.endswith on sequences of characters.
EndsWith(s, suffix) ==
    /\ Len(s) >= Len(suffix)
    /\ SubSeq(s, Len(s) - Len(suffix) + 1, Len(s)) = suffix

\* The card suffix the mock gateway rejects: '1111'.
FailingSuffix == <<1, 1, 1, 1>>

\* PaymentGateway.process_payment(payment_info), n the number random.randint
\* draws: the result dict, or the exception raised. payment_info.get('card_number', '')
\* is the value stored under the key when the key is there, None included.
process_payment(payment_info, n) ==
    LET card_number == IF "card_number" \in DOMAIN payment_info
                       THEN payment_info["card_number"]
                       ELSE Some(<<>>)
    IN  IF card_number = None
        THEN [called |-> TRUE, raised |-> Some("AttributeError"), result |-> None]
        ELSE IF EndsWith(The(card_number), FailingSuffix)
        THEN [called |-> TRUE, raised |-> None,
              result |-> Some([success |-> FALSE,
                               message |-> "Payment failed: Invalid card number",
                               transaction_id |-> None])]
        ELSE [called |-> TRUE, raised |-> None,
              result |-> Some([success |-> TRUE,
                               message |-> "Payment processed successfully",
                               transaction_id |-> Some(<<"TXN", n>>)])]

\* Order(order_id, user_email, items, shipping_info, payment_info, total_amount),
\* constructed when datetime.now() reads `now`; items.copy() is a new list of the
\* same CartItem objects.
Order(order_id, user_email, items, shipping_info, payment_info, total_amount, now) ==
    [order_id |-> order_id, user_email |-> user_email, items |-> items,
     shipping_info |-> shipping_info, payment_info |-> payment_info,
     total_amount |-> total_amount, order_date |-> now, status |-> "Confirmed"]

\* list.sort(key=lambda x: x.order_date) as a stable insertion sort of order
\* references: x goes after every element whose date is not later.
RECURSIVE InsertByDate(_, _, _)
InsertByDate(sorted, x, objs) ==
    IF sorted = <<>> THEN <<x>>
    ELSE IF objs[Head(sorted)].order_date <= objs[x].order_date
    THEN <<Head(sorted)>> \o InsertByDate(Tail(sorted), x, objs)
    ELSE <<x>> \o sorted

RECURSIVE SortByDate(_, _)
SortByDate(list, objs) ==
    IF list = <<>> THEN <<>>
    ELSE InsertByDate(SortByDate(SubSeq(list, 1, Len(list) - 1), objs),
                      list[Len(list)], objs)

\* User.add_order without the sort.
User_add_order_append(user_orders, order, objs) == Append(user_orders, order)

\* User.add_order: append, then sort by order_date.
User_add_order(user_orders, order, objs) == SortByDate(Append(user_orders, order), objs)

----------------------------------------------------------------------------
(* POST /process-checkout *)

\* str(uuid.uuid4())[:8].upper()
OrderIds == {"1A2B3C4D", "9F8E7D6C"}
\* datetime.datetime.now()
Times == 1..MaxTime
\* random.randint(100000, 999999)
RandInts == {100000}

required_fields == <<"name", "email", "address", "city", "zip_code">>

\* The required-fields loop over the first three fields only.
FirstMissing_first_three(shipping_info) ==
    LET missing == {i \in 1..3 : ~Truthy(shipping_info[required_fields[i]])}
    IN  IF missing = {} THEN 0 ELSE CHOOSE i \in missing : \A j \in missing : i <= j

\* The first required field of shipping_info that is empty or absent, 0 if none.
FirstMissing(shipping_info) ==
    LET missing == {i \in 1..Len(required_fields) : ~Truthy(shipping_info[required_fields[i]])}
    IN  IF missing = {} THEN 0 ELSE CHOOSE i \in missing : \A j \in missing : i <= j

\* Upper case of the discount codes of the model.
Upper(code) == IF code = "save10" THEN "SAVE10" ELSE code

\* The discount with the code compared without regard to case.
DiscountPercentIgnoringCase(discount_code) ==
    CASE Upper(discount_code) = "SAVE10"    -> 10
      [] Upper(discount_code) = "WELCOME20" -> 20
      [] OTHER                              -> 0

\* The fraction of the total (in percent) a discount code takes off: exact,
\* case-sensitive string comparison.
DiscountPercent(discount_code) ==
    CASE discount_code = "SAVE10"    -> 10
      [] discount_code = "WELCOME20" -> 20
      [] OTHER                       -> 0

\* No discount whatever the code.
DiscountApplied_none(total, discount_code) == 0

\* discount_applied = total_amount * 0.10 (or 0.20, or 0)
DiscountApplied(total, discount_code) == (total * DiscountPercent(discount_code)) \div 100

\* The message process_checkout flashes about the discount code, if any.
DiscountFlash(discount_code) ==
    CASE discount_code = "SAVE10"    -> <<Msg("Discount applied! You saved ${discount_applied:.2f}")>>
      [] discount_code = "WELCOME20" -> <<Msg("Welcome discount applied! You saved ${discount_applied:.2f}")>>
      [] discount_code # ""          -> <<Msg("Invalid discount code")>>
      [] OTHER                       -> <<>>

\* form: the request's form. order_id, now and n are what uuid.uuid4,
\* datetime.now and random.randint give this request.
ProcessCheckout(form) ==
    LET shipping_info == [f \in SeqToSet(required_fields) |-> form[f]]
        payment_info == [f \in {"payment_method", "card_number", "expiry_date", "cvv"}
                            |-> form[f]]
        discount_code == IF form["discount_code"] = None THEN ""
                         ELSE The(form["discount_code"])
        total == Cart_get_total_price(heap, cart)
        discount_applied == DiscountApplied(total, discount_code)
        total_amount == total - discount_applied
        flashed == DiscountFlash(discount_code)
        missing == FirstMissing(shipping_info)
        current_user == get_current_user
    IN  /\ request' = Request("/process-checkout", form)
        /\ IF Cart_is_empty(cart)
           THEN /\ resp' = Redirect("index", <<Msg("Your cart is empty!")>>)
                /\ payment_result' = NotCalled
                /\ UNCHANGED <<heap, cart, users, orders, order_objs, session>>
           ELSE IF missing # 0
           THEN /\ resp' = Redirect("checkout",
                       Append(flashed, Flash("Please fill in the {field} field",
                                             Some(required_fields[missing]), 0)))
                /\ payment_result' = NotCalled
                /\ UNCHANGED <<heap, cart, users, orders, order_objs, session>>
           ELSE IF /\ payment_info["payment_method"] = Some("credit_card")
                   /\ \/ ~TruthyChars(payment_info["card_number"])
                      \/ ~Truthy(payment_info["expiry_date"])
                      \/ ~Truthy(payment_info["cvv"])
           THEN /\ resp' = Redirect("checkout",
                       Append(flashed, Msg("Please fill in all credit card details")))
                /\ payment_result' = NotCalled
                /\ UNCHANGED <<heap, cart, users, orders, order_objs, session>>
           ELSE \E n \in RandInts :
                LET paid == process_payment(payment_info, n)
                IN  /\ payment_result' = paid
                    /\ IF paid.raised # None
                       THEN /\ resp' = ServerError(The(paid.raised), flashed)
                            /\ UNCHANGED <<heap, cart, users, orders, order_objs, session>>
                       ELSE IF ~The(paid.result).success
                       THEN /\ resp' = Redirect("checkout",
                                   Append(flashed, Msg(The(paid.result).message)))
                            /\ UNCHANGED <<heap, cart, users, orders, order_objs, session>>
                       ELSE \E order_id \in OrderIds, now \in Times :
                            LET order == Order(order_id, shipping_info["email"],
                                            Cart_get_items(cart), shipping_info,
                                            [method |-> payment_info["payment_method"],
                                             transaction_id |-> The(paid.result).transaction_id],
                                            total_amount, now)
                                ref == Len(order_objs) + 1
                            IN  /\ order_objs' = Append(order_objs, order)
                                /\ orders' = [k \in DOMAIN orders \cup {order_id} |->
                                                 IF k = order_id THEN ref ELSE orders[k]]
                                /\ users' = IF current_user # None
                                            THEN [users EXCEPT ![The(session.user_email)].orders =
                                                     User_add_order(@, ref, order_objs')]
                                            ELSE users
                                /\ cart' = Cart_clear
                                /\ heap' = Collect(heap, cart', order_objs')
                                /\ session' = [session EXCEPT !.last_order_id = Some(order_id)]
                                /\ resp' = Redirect("order_confirmation",
                                       Append(flashed,
                                         Msg("Payment successful! Your order has been confirmed.")))

\* The cart routes alone, with quantities within MaxQty.
NextCart ==
    \/ \E t \in FormTitles, q \in FormQuantities :
          AddToCart(t, q) /\ WithinQty(heap', cart', MaxQty) /\ OneAtATime
    \/ \E t \in FormTitles : RemoveFromCart(t) /\ OneAtATime
    \/ \E t \in FormTitles, q \in FormQuantities :
          UpdateCart(t, q) /\ WithinQty(heap', cart', MaxQty) /\ OneAtATime
    \/ ClearCart /\ OneAtATime
    \/ Checkout /\ OneAtATime

SpecCart == Init /\ [][NextCart]_vars

----------------------------------------------------------------------------
(* The checkout form and the whole application *)

CompleteShipping ==
    [name |-> Some("John Doe"), email |-> Some("test@example.com"),
     address |-> Some("123 Street"), city |-> Some("City"), zip_code |-> Some("12345")]

\* The shipping fields of a form: all filled in, or one of them absent, or the
\* name empty.
ShippingForms ==
    {CompleteShipping} \cup
    {[CompleteShipping EXCEPT ![f] = None] : f \in SeqToSet(required_fields)} \cup
    {[CompleteShipping EXCEPT !["name"] = Some("")]}

\* The card numbers of a form: absent, empty, two that end in 1111 or are 1111,
\* one that ends in 111 only, and one that does not.
CardNumbers ==
    {None, Some(<<>>), Some(<<1, 1, 1, 1>>), Some(<<5, 1, 1, 1, 1>>),
     Some(<<2, 1, 1, 1>>), Some(<<4, 2, 4, 2>>)}

\* The payment fields of a form: either method with any card number, and the
\* expiry date or the cvv possibly absent.
PaymentForms ==
    {[payment_method |-> m, card_number |-> c, expiry_date |-> x[1], cvv |-> x[2]] :
        m \in {Some("credit_card"), Some("paypal")}, c \in CardNumbers,
        x \in {<<Some("12/25"), Some("123")>>, <<None, Some("123")>>, <<Some("12/25"), None>>}}

DiscountCodes == {None, Some(""), Some("SAVE10"), Some("save10"), Some("WELCOME20")}

\* request.form of POST /process-checkout
CheckoutForm(shipping, payment, discount_code) ==
    [f \in DOMAIN shipping \cup DOMAIN payment \cup {"discount_code"} |->
        IF f \in DOMAIN shipping THEN shipping[f]
        ELSE IF f \in DOMAIN payment THEN payment[f]
        ELSE discount_code]

CompletePayment ==
    [payment_method |-> Some("credit_card"), card_number |-> Some(<<4, 2, 4, 2>>),
     expiry_date |-> Some("12/25"), cvv |-> Some("123")]

\* The forms a request is drawn from: a complete form with any discount code,
\* and the forms whose shipping part or payment part is not as the complete form
\* has it, without a code, with a valid one and with an invalid one.
CheckoutForms ==
    {CheckoutForm(CompleteShipping, CompletePayment, d) : d \in DiscountCodes}
    \cup {CheckoutForm(s, CompletePayment, d) :
             s \in ShippingForms, d \in {None, Some("WELCOME20"), Some("save10")}}
    \cup {CheckoutForm(CompleteShipping, p, d) :
             p \in PaymentForms, d \in {None, Some("SAVE10"), Some("save10")}}

\* The cart and checkout routes, with every form of CheckoutForms, until
\* MaxFirstOrders orders are placed.
CheckoutTitles == {Some("The Great Gatsby"), Some("1984"), Some("Nonexistent Book")}
CheckoutQuantities == {FormAbsent, FormText, FormInt(0), FormInt(-1)}

\* Fewer than MaxFirstOrders orders are placed.
CheckoutOpen == Len(order_objs) < MaxFirstOrders

NextCheckout ==
    \/ \E t \in CheckoutTitles, q \in CheckoutQuantities :
          CheckoutOpen /\ AddToCart(t, q) /\ WithinQty(heap', cart', MaxOrderQty) /\ OneAtATime
    \/ \E t \in CheckoutTitles : CheckoutOpen /\ RemoveFromCart(t) /\ OneAtATime
    \/ \E t \in CheckoutTitles, q \in CheckoutQuantities :
          CheckoutOpen /\ UpdateCart(t, q) /\ WithinQty(heap', cart', MaxOrderQty) /\ OneAtATime
    \/ CheckoutOpen /\ ClearCart /\ OneAtATime
    \/ CheckoutOpen /\ Checkout /\ OneAtATime
    \/ \E form \in CheckoutForms : CheckoutOpen /\ ProcessCheckout(form) /\ OneAtATime

SpecCheckout == Init /\ [][NextCheckout]_vars

\* The whole application, with fewer values of the form fields, until MaxOrders
\* orders are placed; after the last of them no cart request follows.
AppTitles == {Some("The Great Gatsby"), Some("1984")}
AppQuantities == {FormAbsent}
AppPasswords == {Some("demo123"), Some("pass")}
AppForms ==
    {CheckoutForm(CompleteShipping, CompletePayment, d) : d \in {None, Some("SAVE10")}}
    \cup {CheckoutForm([CompleteShipping EXCEPT !["city"] = None], CompletePayment, None),
          CheckoutForm(CompleteShipping,
                       [CompletePayment EXCEPT !["card_number"] = Some(<<5, 1, 1, 1, 1>>)],
                       None),
          CheckoutForm(CompleteShipping, [CompletePayment EXCEPT !["cvv"] = None], None)}

\* Fewer than MaxOrders orders are placed.
CartOpen == Len(order_objs) < MaxOrders

Next ==
    \/ \E t \in AppTitles, q \in AppQuantities :
          CartOpen /\ AddToCart(t, q) /\ WithinQty(heap', cart', MaxOrderQty) /\ OneAtATime
    \/ \E t \in AppTitles : CartOpen /\ RemoveFromCart(t) /\ OneAtATime
    \/ \E t \in AppTitles, q \in AppQuantities :
          CartOpen /\ UpdateCart(t, q) /\ WithinQty(heap', cart', MaxOrderQty) /\ OneAtATime
    \/ CartOpen /\ ClearCart /\ OneAtATime
    \/ CartOpen /\ Checkout /\ OneAtATime
    \/ \E p \in AppPasswords : Login(Some("demo@bookstore.com"), p) /\ OneAtATime
    \/ Logout /\ OneAtATime
    \/ \E form \in AppForms :
          ProcessCheckout(form) /\ Len(order_objs') <= MaxOrders /\ OneAtATime

Spec == Init /\ [][Next]_vars

----------------------------------------------------------------------------
(* Properties *)

EmptyCartResponse == Redirect("index", <<Msg("Your cart is empty!")>>)

HasFlash(r, msg) == \E i \in 1..Len(r.flashes) : r.flashes[i].msg = msg

\* C1: a checkout with an empty cart is rejected and never reaches payment:
\* when process-checkout (with any form) or GET /checkout runs while the cart has
\* no entries, the response is the redirect to the index, the payment gateway is
\* not called, and the order store, the Order objects and every user (so every
\* order history) are as before.
EmptyCartCheckoutRejected ==
    [][ (cart = <<>> /\ request'.route \in {"/checkout", "/process-checkout"})
        => /\ resp' = EmptyCartResponse
           /\ payment_result' = NotCalled
           /\ orders' = orders
           /\ order_objs' = order_objs
           /\ users' = users ]_vars

\* An empty-cart checkout was rejected after an order had been placed.
EmptyCartCheckoutRejectedWitness ==
    /\ request.route = "/process-checkout"
    /\ cart = <<>>
    /\ resp = EmptyCartResponse
    /\ order_objs # <<>>

\* The form passes steps 1 to 3 of process_checkout: the gateway is called.
ReachesPayment(form) ==
    /\ cart # <<>>
    /\ \A i \in 1..Len(required_fields) : Truthy(form[required_fields[i]])
    /\ form["payment_method"] = Some("credit_card")
          => /\ TruthyChars(form["card_number"])
             /\ Truthy(form["expiry_date"])
             /\ Truthy(form["cvv"])

\* The card number of the form ends in 1111 (an absent one does not).
EndsIn1111(form) ==
    /\ form["card_number"] # None
    /\ LET card == The(form["card_number"])
       IN  /\ Len(card) >= 4
           /\ \A k \in 0..3 : card[Len(card) - k] = 1

\* C2: process_payment is total on the payment info process-checkout passes to
\* it: for every form that passes steps 1 to 3 the call returns a result, with
\* success false exactly when the card number ends in 1111 and success true with
\* a transaction id otherwise.
ProcessPaymentTotal ==
    [][ (request'.route = "/process-checkout" /\ ReachesPayment(request'.form))
          => /\ payment_result'.called
             /\ payment_result'.raised = None
             /\ payment_result'.result # None
             /\ The(payment_result'.result).success = ~EndsIn1111(request'.form)
             /\ The(payment_result'.result).success
                   => The(payment_result'.result).transaction_id # None ]_vars

\* The discount code of a form as process_checkout reads it.
CodeOf(form) == IF form["discount_code"] = None THEN "" ELSE The(form["discount_code"])

\* The last Order constructed.
LastOrder(objs) == objs[Len(objs)]

\* C3: discount codes match exactly and case-sensitively: with "SAVE10" the order
\* total is the cart total less 10%, with "WELCOME20" less 20%; any other
\* non-empty code ("save10") is answered 'Invalid discount code' and the order
\* total is the cart total; an empty code gives no discount message and no
\* reduction.
DiscountCodeExactMatch ==
    [][ (request'.route = "/process-checkout" /\ cart # <<>>)
          => LET code == CodeOf(request'.form)
                 total == Cart_get_total_price(heap, cart)
                 placed == Len(order_objs') = Len(order_objs) + 1
                 amount == LastOrder(order_objs').total_amount
                 applied == HasFlash(resp', "Discount applied! You saved ${discount_applied:.2f}")
                 welcome == HasFlash(resp', "Welcome discount applied! You saved ${discount_applied:.2f}")
                 invalid == HasFlash(resp', "Invalid discount code")
             IN  /\ code = "SAVE10"
                    => applied /\ ~welcome /\ ~invalid /\ (placed => 10 * amount = 9 * total)
                 /\ code = "WELCOME20"
                    => welcome /\ ~applied /\ ~invalid /\ (placed => 10 * amount = 8 * total)
                 /\ code \notin {"", "SAVE10", "WELCOME20"}
                    => invalid /\ ~applied /\ ~welcome /\ (placed => amount = total)
                 /\ code = ""
                    => ~invalid /\ ~applied /\ ~welcome /\ (placed => amount = total) ]_vars

\* An order was placed with "SAVE10": the total charged is nine tenths of the
\* price of the one book ordered.
DiscountCodeExactMatchWitness ==
    /\ order_objs # <<>>
    /\ request.route = "/process-checkout"
    /\ request.form["discount_code"] = Some("SAVE10")
    /\ HasFlash(resp, "Discount applied! You saved ${discount_applied:.2f}")
    /\ HasFlash(resp, "Payment successful! Your order has been confirmed.")
    /\ Len(LastOrder(order_objs).items) = 1
    /\ heap[LastOrder(order_objs).items[1]] = CartItem("1984", 1)
    /\ LastOrder(order_objs).total_amount = 8091

\* The sum of CartItem.get_total_price over the cart's entries.
RECURSIVE SumOfItemTotals(_, _)
SumOfItemTotals(h, c) ==
    IF c = <<>> THEN 0
    ELSE CartItem_get_total_price(h[Head(c)]) + SumOfItemTotals(h, Tail(c))

\* C4: Cart.get_total_price is the sum over the entries of price * quantity, in
\* every cart the cart routes can produce.
CartTotalIsSumOfItemTotals ==
    Cart_get_total_price(heap, cart) = SumOfItemTotals(heap, cart)

\* C5: every quantity in the cart is an integer >= 0.
CartQuantitiesNonNegative ==
    \A i \in 1..Len(cart) : heap[cart[i]].quantity \in Nat

\* The quantity of the cart entry keyed by title.
QuantityOf(h, c, title) == h[c[CartIndex(h, c, title)]].quantity

\* The cart entries other than the one keyed by title are the same objects with
\* the same contents, in the same places.
OthersUnchanged(h1, c1, h2, c2, title) ==
    \A i \in 1..Len(c1) :
        Some(h1[c1[i]].book) # title
        => i <= Len(c2) /\ c2[i] = c1[i] /\ h2[c2[i]] = h1[c1[i]]

EntriesOf(h, c, title) == Cardinality({i \in 1..Len(c) : Some(h[c[i]].book) = title})

\* C7: add-to-cart of quantity q of a title that is not in the cart makes one
\* entry of quantity q, and adding q2 of the same title next makes that entry's
\* quantity q + q2, still one entry; add-to-cart of q2 of a title in the cart with
\* quantity x makes it x + q2; the other entries are unchanged.
AddTwiceSums ==
    [][ LET t == request'.form["title"]
            q == ParseQuantity(request'.form["quantity"])
        IN  (request'.route = "/add-to-cart" /\ q.ok /\ FindBook(t) # None)
            => IF InCart(heap, cart, t)
               THEN /\ cart' = cart
                    /\ QuantityOf(heap', cart', t) = QuantityOf(heap, cart, t) + q.val
                    /\ OthersUnchanged(heap, cart, heap', cart', t)
                    /\ EntriesOf(heap', cart', t) = 1
               ELSE /\ Len(cart') = Len(cart) + 1
                    /\ EntriesOf(heap', cart', t) = 1
                    /\ QuantityOf(heap', cart', t) = q.val
                    /\ OthersUnchanged(heap, cart, heap', cart', t)
                    /\ \A q2 \in (-MaxQty)..MaxQty :
                          LET again == Cart_add_book(heap', cart', The(t), q2)
                          IN  /\ again[2] = cart'
                              /\ EntriesOf(again[1], again[2], t) = 1
                              /\ QuantityOf(again[1], again[2], t) = q.val + q2
                              /\ OthersUnchanged(heap, cart, again[1], again[2], t) ]_vars

\* 2 of "1984" were just added and its one entry now has quantity 3 = 1 + 2.
AddTwiceSumsWitness ==
    /\ request = Request("/add-to-cart", [title |-> Some("1984"), quantity |-> FormInt(2)])
    /\ EntriesOf(heap, cart, Some("1984")) = 1
    /\ QuantityOf(heap, cart, Some("1984")) = 3

\* C8: register rejects an email exactly when that very string is a key of the
\* user store: then the store and the session are unchanged; otherwise (also when
\* the email differs from a key in case only) the account is created beside the
\* existing ones, which are unchanged, and the requester is logged in.
RegisterRejectsExactDuplicate ==
    [][ LET e == request'.form["email"]
            p == request'.form["password"]
            n == request'.form["name"]
        IN
          (request'.route = "/register" /\ Truthy(e) /\ Truthy(p) /\ Truthy(n))
          => IF The(e) \in DOMAIN users
             THEN /\ users' = users
                  /\ session' = session
                  /\ resp' = Render("register.html",
                                <<Msg("An account with this email already exists")>>)
             ELSE /\ DOMAIN users' = DOMAIN users \cup {The(e)}
                  /\ \A old \in DOMAIN users : users'[old] = users[old]
                  /\ users'[The(e)].password = The(p)
                  /\ users'[The(e)].orders = <<>>
                  /\ session'.user_email = e
                  /\ resp'.status = 302 ]_vars

\* "a@b.com" and "A@b.com" are both registered, the second one just now.
RegisterRejectsExactDuplicateWitness ==
    /\ request.route = "/register"
    /\ {"a@b.com", "A@b.com"} \subseteq DOMAIN users
    /\ session.user_email = Some("A@b.com")
    /\ HasFlash(resp, "Account created successfully! You are now logged in.")

\* C9: a cart request whose quantity is not an integer ends with a redirect
\* (status 302) and leaves the cart unchanged.
NonIntegerQuantityRedirects ==
    [][ (/\ request'.route \in {"/add-to-cart", "/update-cart"}
         /\ request'.form["quantity"] = FormText)
        => resp'.status = 302 /\ cart' = cart /\ heap' = heap ]_vars

\* The order references are in the order of their dates.
SortedByDate(list, objs) ==
    \A i, j \in 1..Len(list) : i < j => objs[list[i]].order_date <= objs[list[j]].order_date

\* C10: after a process-checkout whose payment succeeds the order store holds a
\* new order whose items are the entries (titles, quantities) the cart held
\* when the request started and whose total_amount is the cart total minus the
\* discount; the order is in the history of the logged-in user, which is sorted
\* by order date; and the cart is empty.
SuccessfulCheckoutPlacesOrder ==
    [][ (/\ request'.route = "/process-checkout"
         /\ payment_result'.result # None
         /\ The(payment_result'.result).success)
          => LET ref == Len(order_objs) + 1
                 form == request'.form
                 new == order_objs'[ref]
                 total == Cart_get_total_price(heap, cart)
                 percent == IF CodeOf(form) = "SAVE10" THEN 10
                            ELSE IF CodeOf(form) = "WELCOME20" THEN 20 ELSE 0
             IN  /\ Len(order_objs') = ref
                 /\ SubSeq(order_objs', 1, Len(order_objs)) = order_objs
                 /\ new.order_id \in DOMAIN orders'
                 /\ orders'[new.order_id] = ref
                 /\ Len(new.items) = Len(cart)
                 /\ \A i \in 1..Len(cart) : heap'[new.items[i]] = heap[cart[i]]
                 /\ 100 * new.total_amount = (100 - percent) * total
                 /\ session.user_email # None
                       => LET before == users[The(session.user_email)].orders
                              after == users'[The(session.user_email)].orders
                          IN  /\ SeqToSet(after) = SeqToSet(before) \cup {ref}
                              /\ Len(after) = Len(before) + 1
                              /\ SortedByDate(after, order_objs')
                 /\ cart' = <<>> ]_vars

\* The demo user has placed two orders, the second one dated before the first,
\* and the history lists it first.
SuccessfulCheckoutPlacesOrderWitness ==
    /\ request.route = "/process-checkout"
    /\ users["demo@bookstore.com"].orders = <<2, 1>>
    /\ order_objs[2].order_date < order_objs[1].order_date
    /\ cart = <<>>
    /\ HasFlash(resp, "Payment successful! Your order has been confirmed.")

\* C11: every process-checkout that succeeds stores its order under an id no
\* order in the store has yet: the store has one entry more than before, and
\* every entry it had still refers to the same order.
SuccessfulCheckoutAddsOrder ==
    [][ (/\ request'.route = "/process-checkout"
         /\ payment_result'.result # None
         /\ The(payment_result'.result).success)
          => /\ session'.last_order_id # None
             /\ The(session'.last_order_id) \notin DOMAIN orders
             /\ Cardinality(DOMAIN orders') = Cardinality(DOMAIN orders) + 1
             /\ \A k \in DOMAIN orders : k \in DOMAIN orders' /\ orders'[k] = orders[k] ]_vars

----------------------------------------------------------------------------
(* models.Order built from the cart by a caller that does not clear the cart *)

\* Number of Orders constructed in one run of the snapshot specification.
MaxSnapshots == 1

\* order = Order(order_id, user_email, cart.get_items(), shipping_info,
\* payment_info, total_amount), as test_order_confirmation_creation and
\* process_checkout construct it, with the cart's total as total_amount; the
\* cart is left as it is.
ConstructOrder(order_id, now) ==
    /\ request' = Request("Order", NoForm)
    /\ order_objs' = Append(order_objs,
           Order(order_id, Some("test@example.com"), Cart_get_items(cart),
                 CompleteShipping,
                 [method |-> Some("credit_card"), transaction_id |-> Some(<<"TXN", 123>>)],
                 Cart_get_total_price(heap, cart), now))
    /\ UNCHANGED <<heap, cart, users, orders, session, resp, payment_result>>

SnapshotTitles == {Some("The Great Gatsby"), Some("1984")}
SnapshotQuantities == {FormAbsent, FormInt(0)}

\* The cart operations (through their routes) and the construction of Orders
\* from the cart.
NextSnapshot ==
    \/ \E t \in SnapshotTitles, q \in SnapshotQuantities :
          AddToCart(t, q) /\ WithinQty(heap', cart', MaxOrderQty) /\ OneAtATime
    \/ \E t \in SnapshotTitles : RemoveFromCart(t) /\ OneAtATime
    \/ \E t \in SnapshotTitles, q \in SnapshotQuantities :
          UpdateCart(t, q) /\ WithinQty(heap', cart', MaxOrderQty) /\ OneAtATime
    \/ ClearCart /\ OneAtATime
    \/ \E order_id \in OrderIds, now \in Times :
          Len(order_objs) < MaxSnapshots /\ ConstructOrder(order_id, now) /\ OneAtATime

SpecSnapshot == Init /\ [][NextSnapshot]_vars

\* The titles and quantities of the items of an order, in the list's order.
OrderLines(h, order) == [i \in 1..Len(order.items) |-> h[order.items[i]]]

\* C12: an Order is an immutable snapshot of the cart items it was built from:
\* no add-to-cart, update-cart, remove-from-cart or clear-cart after its
\* construction changes the order's list of items, the quantity of any of its
\* items or its total_amount, whether the cart was cleared in between or not.
OrderIsSnapshot ==
    [][ request'.route \in {"/add-to-cart", "/update-cart", "/remove-from-cart", "/clear-cart"}
          => \A k \in 1..Len(order_objs) :
                /\ order_objs'[k].items = order_objs[k].items
                /\ order_objs'[k].total_amount = order_objs[k].total_amount
                /\ \A i \in 1..Len(order_objs[k].items) :
                      /\ order_objs[k].items[i] \in DOMAIN heap'
                      /\ OrderLines(heap', order_objs'[k])[i]
                            = OrderLines(heap, order_objs[k])[i] ]_vars

\* A required shipping field of the form is empty or absent.
ShippingFieldEmpty(form) ==
    \E f \in {"name", "email", "address", "city", "zip_code"} :
        form[f] = None \/ form[f] = Some("")

\* The payment method is credit_card and a card detail is empty or absent.
CardDetailMissing(form) ==
    /\ form["payment_method"] = Some("credit_card")
    /\ \/ form["card_number"] = None \/ form["card_number"] = Some(<<>>)
       \/ form["expiry_date"] = None \/ form["expiry_date"] = Some("")
       \/ form["cvv"] = None \/ form["cvv"] = Some("")

\* The gateway was called and reported failure.
GatewayRefused(p) == p.called /\ p.result # None /\ ~The(p.result).success

\* C13: process-checkout short-circuits on the first failing step. A request
\* with an empty cart, an empty required shipping field or (for credit_card) a
\* missing card detail is answered by a redirect without a call of the payment
\* gateway; such a request, and one the gateway refuses, leaves the cart, the
\* order store, the Order objects and every user's order history as they were.
ProcessCheckoutShortCircuits ==
    [][ request'.route = "/process-checkout"
          => LET form == request'.form
                 early == \/ cart = <<>>
                          \/ ShippingFieldEmpty(form)
                          \/ CardDetailMissing(form)
             IN  /\ early => /\ payment_result' = NotCalled
                             /\ resp'.status = 302
                             /\ resp'.target = (IF cart = <<>> THEN "index" ELSE "checkout")
                 /\ (early \/ GatewayRefused(payment_result'))
                       => /\ cart' = cart
                          /\ heap' = heap
                          /\ orders' = orders
                          /\ order_objs' = order_objs
                          /\ users' = users
                          /\ session' = session ]_vars

\* The gateway refused the payment of the logged-in demo user, who has placed
\* an order before; the cart still holds its entry.
ProcessCheckoutShortCircuitsWitness ==
    /\ request.route = "/process-checkout"
    /\ GatewayRefused(payment_result)
    /\ cart # <<>>
    /\ session.user_email = Some("demo@bookstore.com")
    /\ users["demo@bookstore.com"].orders # <<>>
    /\ resp = Redirect("checkout", <<Msg("Payment failed: Invalid card number")>>)

----------------------------------------------------------------------------
(* process_checkout on a thread of its own: app.run serves each request on its
   own thread, and the one cart has no lock. The call is split where it reads
   or writes the cart: is_empty, get_total_price, get_items and clear; each
   Cart method and each other request runs as one step. *)

\* Number of orders placed in one run of the threaded specification.
MaxRaceOrders == 1

\* The positions of a call in progress.
InProgress == {"total", "order", "clear"}

\* process_checkout, lines 139-162: the empty-cart test and the form.
ThreadBegin(form) ==
    /\ inflight.pc \in {"idle", "done"}
    /\ request' = Request("/process-checkout", form)
    /\ overlapped' = FALSE
    /\ IF Cart_is_empty(cart)
       THEN /\ resp' = Redirect("index", <<Msg("Your cart is empty!")>>)
            /\ payment_result' = NotCalled
            /\ inflight' = [Idle EXCEPT !.pc = "done", !.form = form]
       ELSE /\ inflight' = [Idle EXCEPT !.pc = "total", !.form = form]
            /\ UNCHANGED <<resp, payment_result>>
    /\ UNCHANGED <<heap, cart, users, orders, order_objs, session>>

\* process_checkout, lines 164-195: the total of the cart as it is now, the
\* discount, the checks of the form and the payment.
ThreadTotal ==
    LET form == inflight.form
        shipping_info == [f \in SeqToSet(required_fields) |-> form[f]]
        payment_info == [f \in {"payment_method", "card_number", "expiry_date", "cvv"}
                            |-> form[f]]
        discount_code == IF form["discount_code"] = None THEN ""
                         ELSE The(form["discount_code"])
        total == Cart_get_total_price(heap, cart)
        total_amount == total - DiscountApplied(total, discount_code)
        flashed == DiscountFlash(discount_code)
        missing == FirstMissing(shipping_info)
        done == [inflight EXCEPT !.pc = "done", !.total_amount = total_amount]
    IN  /\ inflight.pc = "total"
        /\ UNCHANGED <<heap, cart, users, orders, order_objs, session, request, overlapped>>
        /\ IF missing # 0
           THEN /\ resp' = Redirect("checkout",
                       Append(flashed, Flash("Please fill in the {field} field",
                                             Some(required_fields[missing]), 0)))
                /\ payment_result' = NotCalled
                /\ inflight' = done
           ELSE IF /\ payment_info["payment_method"] = Some("credit_card")
                   /\ \/ ~TruthyChars(payment_info["card_number"])
                      \/ ~Truthy(payment_info["expiry_date"])
                      \/ ~Truthy(payment_info["cvv"])
           THEN /\ resp' = Redirect("checkout",
                       Append(flashed, Msg("Please fill in all credit card details")))
                /\ payment_result' = NotCalled
                /\ inflight' = done
           ELSE \E n \in RandInts :
                LET paid == process_payment(payment_info, n)
                IN  /\ payment_result' = paid
                    /\ IF paid.raised # None
                       THEN /\ resp' = ServerError(The(paid.raised), flashed)
                            /\ inflight' = done
                       ELSE IF ~The(paid.result).success
                       THEN /\ resp' = Redirect("checkout",
                                   Append(flashed, Msg(The(paid.result).message)))
                            /\ inflight' = done
                       ELSE /\ inflight' = [inflight EXCEPT
                                   !.pc = "order", !.total_amount = total_amount,
                                   !.transaction_id = The(paid.result).transaction_id]
                            /\ UNCHANGED resp

\* process_checkout, lines 197-217: the Order of the cart's items as they are
\* now, stored and added to the history of the logged-in user.
ThreadOrder ==
    /\ inflight.pc = "order"
    /\ \E order_id \in OrderIds, now \in Times :
         LET form == inflight.form
             shipping_info == [f \in SeqToSet(required_fields) |-> form[f]]
             order == Order(order_id, shipping_info["email"], Cart_get_items(cart),
                            shipping_info,
                            [method |-> form["payment_method"],
                             transaction_id |-> inflight.transaction_id],
                            inflight.total_amount, now)
             ref == Len(order_objs) + 1
         IN  /\ order_objs' = Append(order_objs, order)
             /\ orders' = [k \in DOMAIN orders \cup {order_id} |->
                              IF k = order_id THEN ref ELSE orders[k]]
             /\ users' = IF get_current_user # None
                         THEN [users EXCEPT ![The(session.user_email)].orders =
                                  User_add_order(@, ref, order_objs')]
                         ELSE users
             /\ inflight' = [inflight EXCEPT !.pc = "clear", !.ref = ref]
    /\ UNCHANGED <<heap, cart, session, request, resp, payment_result, overlapped>>

\* process_checkout, lines 219-229: cart.clear(), the session and the answer.
ThreadClear ==
    LET form == inflight.form
        discount_code == IF form["discount_code"] = None THEN ""
                         ELSE The(form["discount_code"])
    IN  /\ inflight.pc = "clear"
        /\ cart' = Cart_clear
        /\ heap' = Collect(heap, cart', order_objs)
        /\ session' = [session EXCEPT
               !.last_order_id = Some(order_objs[inflight.ref].order_id)]
        /\ resp' = Redirect("order_confirmation",
               Append(DiscountFlash(discount_code),
                      Msg("Payment successful! Your order has been confirmed.")))
        /\ inflight' = [inflight EXCEPT !.pc = "done"]
        /\ UNCHANGED <<users, orders, order_objs, request, payment_result, overlapped>>

\* Another request is served while the call is where it is.
Meanwhile ==
    /\ overlapped' = (overlapped \/ inflight.pc \in InProgress)
    /\ UNCHANGED inflight

RaceTitles == {Some("The Great Gatsby"), Some("1984")}
RaceQuantities == {FormAbsent, FormInt(-1)}
RaceForms == {CheckoutForm(CompleteShipping, CompletePayment, d) : d \in {None, Some("SAVE10")}}

\* An order can still be placed, or is being placed.
RaceOpen == Len(order_objs) < MaxRaceOrders \/ inflight.pc \in InProgress

NextThreaded ==
    \/ \E t \in RaceTitles, q \in RaceQuantities :
          RaceOpen /\ AddToCart(t, q) /\ WithinQty(heap', cart', MaxOrderQty) /\ Meanwhile
    \/ \E t \in RaceTitles, q \in RaceQuantities :
          RaceOpen /\ UpdateCart(t, q) /\ WithinQty(heap', cart', MaxOrderQty) /\ Meanwhile
    \/ \E form \in RaceForms : Len(order_objs) < MaxRaceOrders /\ ThreadBegin(form)
    \/ ThreadTotal
    \/ ThreadOrder
    \/ ThreadClear

SpecThreaded == Init /\ [][NextThreaded]_vars

\* The percentage the form's discount code takes off.
PercentOf(form) ==
    IF CodeOf(form) = "SAVE10" THEN 10 ELSE IF CodeOf(form) = "WELCOME20" THEN 20 ELSE 0

\* The order's total_amount is the discounted sum of price * quantity of its items.
ChargedForItsItems(h, order, form) ==
    100 * order.total_amount = (100 - PercentOf(form)) * SumOfItemTotals(h, order.items)

\* Every entry of the list of CartItems has a positive quantity.
AllPositive(h, c) == \A i \in 1..Len(c) : h[c[i]].quantity > 0

\* C14, requests one at a time: when a process_checkout call that no other
\* request overlapped clears a cart of positive quantities, the order it stored
\* is charged the discounted sum of price * quantity of its items, and the
\* entries the clear discards are exactly the order's items. (That the two
\* states of the claim are reachable when an add-to-cart or update-cart runs in
\* between is what the witness and CartChangeDiscarded show.)
UnraceCheckoutChargesCart ==
    [][ (/\ inflight.pc = "clear"
         /\ inflight'.pc = "done"
         /\ ~overlapped
         /\ AllPositive(heap, cart))
          => LET order == order_objs[inflight.ref]
             IN  /\ ChargedForItsItems(heap, order, inflight.form)
                 /\ order.items = cart
                 /\ ChargedForItsItems(heap', order_objs'[inflight.ref], inflight.form)
                 /\ cart' = <<>> ]_vars

\* A call that another request overlapped has finished, and the order it stored,
\* all of whose items have positive quantities, is not charged the discounted
\* sum of price * quantity of its items.
UnraceCheckoutChargesCartWitness ==
    /\ inflight.pc = "done"
    /\ inflight.ref # 0
    /\ overlapped
    /\ AllPositive(heap, order_objs[inflight.ref].items)
    /\ ~ChargedForItsItems(heap, order_objs[inflight.ref], inflight.form)

\* A call that another request overlapped is about to clear the cart: its order
\* is charged for its items, and the cart holds an entry that is not among them.
CartChangeDiscarded ==
    /\ inflight.pc = "clear"
    /\ overlapped
    /\ ChargedForItsItems(heap, order_objs[inflight.ref], inflight.form)
    /\ \E i \in 1..Len(cart) : cart[i] \notin SeqToSet(order_objs[inflight.ref].items)

\* A call that no other request overlapped has placed an order with a discount
\* for a cart of positive quantities.
UnracedCheckoutDone ==
    /\ inflight.pc = "done"
    /\ inflight.ref # 0
    /\ ~overlapped
    /\ PercentOf(inflight.form) = 10
    /\ order_objs[inflight.ref].items # <<>>
    /\ AllPositive(heap, order_objs[inflight.ref].items)

====
